---- MODULE Spec2Model ----
(***************************************************************************)
(* Model of the thrift-examples repository: the Go weather handler         *)
(* (go_stream_server/server.go), its coordinate table, and the two         *)
(* Node.js HTTP-to-Thrift bridges (/api/temperature and /api/llm).         *)
(*                                                                         *)
(* Conventions.  Go float64 literals are carried as scaled integers:       *)
(* coordinates in 1e-4 degrees (40.7128 -> 407128), the %.6f text of the   *)
(* query string in 1e-6 degrees, temperatures in tenths of a degree.       *)
(* The wall clock advances in half seconds, so that time.Now().Unix()      *)
(* truncates.  Go's nil and JavaScript's null are the record Nil.          *)
(***************************************************************************)
EXTENDS Integers, Sequences, FiniteSets, TLC

VARIABLES
    pc,          \* position of the GetTemperature invocation
    req,         \* *weather.WeatherRequest of the invocation
    latitude,    \* server.go:29
    longitude,   \* server.go:29
    url,         \* server.go:32
    resp,        \* what http.Get and io.ReadAll delivered
    result,      \* (reading, err) returned by GetTemperature
    gets,        \* outbound HTTP GETs issued by the current invocation
    clock,       \* wall clock, in half seconds
    requests,    \* HTTP requests the bridges have received, in arrival order
    responses,   \* per request, the HTTP responses sent for it
    connections, \* Thrift connections the bridges have created
    calls,       \* RPC invocations made through a Thrift client
    thriftClient,     \* server.ts:20, the connection the cached client is bound to, 0 for null
    thriftConnection, \* server.ts:21, the cached connection, 0 for null
    stamp,       \* the i64 timestamp of a reading, in decimal
    carried,     \* part_008:61, result.timestamp as the client delivers it
    emitted,     \* part_008:77, the timestamp member of the response, "" before it is built
    reqBody,     \* server.ts:67, req.body of an /api/llm request
    generationRequest, \* server.ts:77, the TextGenerationRequest built from it
    variant,     \* part_009: which of the two main programs runs, "none" before it starts
    mainPc,      \* part_009: position of main
    transport,   \* part_009:20, the socket transport
    issued,      \* part_009: the RPC calls main has issued, with their outcomes
    exitCode     \* part_009: exit status of the process, Nil while it runs

handlerVars == <<pc, req, latitude, longitude, url, resp, result, gets, clock>>

bridgeVars == <<requests, responses, connections, calls, thriftClient, thriftConnection>>

conversionVars == <<stamp, carried, emitted, reqBody, generationRequest>>

clientVars == <<variant, mainPc, transport, issued, exitCode>>

Nil == [nil |-> TRUE]

(***************************************************************************)
(* Bounds of the model.                                                    *)
(***************************************************************************)
MaxClock == 3
MaxRequests == 2

(***************************************************************************)
(* Inputs.                                                                 *)
(***************************************************************************)
Locations ==
    {"new york", "london", "tokyo", "paris", "sydney", "san francisco",
     "", "London", " london ", "NEW YORK", "unknown_city"}

\* strings.ToLower(strings.TrimSpace(s)) on the inputs above; the handler
\* does not call it.
Normalised(s) ==
    CASE s = "London" -> "london"
      [] s = " london " -> "london"
      [] s = "NEW YORK" -> "new york"
      [] OTHER -> s

(***************************************************************************)
(* The coordinate table, server.go:96-103 and utils.go:54-61.              *)
(***************************************************************************)
coordinates ==
    [k \in {"new york", "london", "tokyo", "paris", "sydney", "san francisco"} |->
        CASE k = "new york" -> <<407128, -740060>>
          [] k = "london" -> <<515074, -1278>>
          [] k = "tokyo" -> <<356762, 1396503>>
          [] k = "paris" -> <<488566, 23522>>
          [] k = "sydney" -> <<-338688, 1512093>>
          [] k = "san francisco" -> <<377749, -1224194>>]

getCoordinatesForLocation_Normalising(location) ==
    IF Normalised(location) \in DOMAIN coordinates
    THEN coordinates[Normalised(location)]
    ELSE <<407128, -740060>>

getCoordinatesForLocation_ZeroDefault(location) ==
    IF location \in DOMAIN coordinates
    THEN coordinates[location]
    ELSE <<0, 0>>

\* server.go:95-110
getCoordinatesForLocation(location) ==
    IF location \in DOMAIN coordinates
    THEN coordinates[location]
    ELSE <<407128, -740060>>

\* utils.go:53-68, the same table and the same fallback
GetCoordinatesForLocation(location) ==
    IF location \in DOMAIN coordinates
    THEN coordinates[location]
    ELSE <<407128, -740060>>

\* fmt.Sprintf("...latitude=%.6f&longitude=%.6f&current=temperature_2m"):
\* six decimals of a value held in 1e-4 degrees
FormatUrl(lat, lon) ==
    [host |-> "api.open-meteo.com", path |-> "/v1/forecast",
     latitude |-> lat * 100, longitude |-> lon * 100,
     current |-> "temperature_2m"]

\* time.Now().Unix(): whole seconds of a clock kept in half seconds
Unix(t) ==
    t \div 2

(***************************************************************************)
(* What the forecast API can deliver.  A JSON member is absent or carries  *)
(* a value of some JSON type; a body is a JSON object or not JSON at all.  *)
(***************************************************************************)
JAbsent == [t |-> "absent"]
JNum(n) == [t |-> "number", v |-> n]
JBool(b) == [t |-> "bool", v |-> b]
JStr(s) == [t |-> "string", v |-> s]

TemperatureMembers == {JAbsent, JNum(0), JNum(205), JNum(-50), JStr("20.5")}
ErrorMembers == {JAbsent, JBool(FALSE), JBool(TRUE), JStr("true")}
ReasonMembers == {JAbsent, JStr("Latitude must be in range of -90 to 90")}

Bodies ==
    {[json |-> FALSE, perr |-> "invalid character '<' looking for beginning of value"]}
    \cup
    {[json |-> TRUE, temperature_2m |-> t, error |-> e, reason |-> r] :
        t \in TemperatureMembers, e \in ErrorMembers, r \in ReasonMembers}

Statuses == {200, 201, 400, 500}
FetchErrors == {"dial tcp: lookup api.open-meteo.com: no such host"}
ReadErrors == {"unexpected EOF"}

Responses ==
    {[kind |-> "fetch_error", err |-> e] : e \in FetchErrors}
    \cup
    {[kind |-> "response", status |-> s, read |-> [ok |-> FALSE, err |-> e]] :
        s \in Statuses, e \in ReadErrors}
    \cup
    {[kind |-> "response", status |-> s, read |-> [ok |-> TRUE, body |-> b]] :
        s \in Statuses, b \in Bodies}

(***************************************************************************)
(* json.Unmarshal(body, &weatherData) into OpenMeteoResponse,              *)
(* server.go:16-22 and 64-65: an absent member leaves the zero value, a    *)
(* member of the wrong JSON type is an UnmarshalTypeError, text that is    *)
(* not JSON is a SyntaxError.                                              *)
(***************************************************************************)
Unmarshal_IgnoringErrors(body) ==
    [err |-> Nil,
     data |-> [Temperature |-> 0, Error |-> FALSE, Reason |-> ""]]

Unmarshal(body) ==
    IF ~body.json
    THEN [err |-> [error |-> body.perr],
          data |-> [Temperature |-> 0, Error |-> FALSE, Reason |-> ""]]
    ELSE IF body.temperature_2m.t \notin {"absent", "number"}
    THEN [err |-> [error |-> "json: cannot unmarshal string into Go struct field OpenMeteoResponse.current.temperature_2m of type float64"],
          data |-> [Temperature |-> 0, Error |-> FALSE, Reason |-> ""]]
    ELSE IF body.error.t \notin {"absent", "bool"}
    THEN [err |-> [error |-> "json: cannot unmarshal string into Go struct field OpenMeteoResponse.error of type bool"],
          data |-> [Temperature |-> 0, Error |-> FALSE, Reason |-> ""]]
    ELSE [err |-> Nil,
          data |-> [Temperature |-> IF body.temperature_2m.t = "number"
                                    THEN body.temperature_2m.v ELSE 0,
                    Error |-> IF body.error.t = "bool" THEN body.error.v ELSE FALSE,
                    Reason |-> IF body.reason.t = "string" THEN body.reason.v ELSE ""]]

(***************************************************************************)
(* The return statements of GetTemperature.                                *)
(***************************************************************************)
WeatherServiceError(message, details) ==
    [type |-> "WeatherServiceError", message |-> message, details |-> details]

\* server.go:37-43
FetchFailure(e) ==
    [reading |-> Nil, err |-> WeatherServiceError("Failed to fetch weather data", e)]

ReadFailure_PlainError(e) ==
    [reading |-> Nil,
     err |-> [type |-> "errorString", message |-> "failed to read response: " \o e,
              details |-> ""]]

\* server.go:47-53
ReadFailure(e) ==
    [reading |-> Nil, err |-> WeatherServiceError("Failed to read response", e)]

StatusFailure_NoCode(code) ==
    [reading |-> Nil, err |-> WeatherServiceError("Weather API error", "Status code")]

\* server.go:56-62
StatusFailure(code) ==
    [reading |-> Nil,
     err |-> WeatherServiceError("Weather API error", "Status code: " \o ToString(code))]

\* server.go:65-71
DecodeFailure_WithReading(e) ==
    [reading |-> [Temperature |-> 0, Location |-> "", Timestamp |-> 0, Unit |-> "celsius"],
     err |-> WeatherServiceError("Failed to decode weather data", e)]

DecodeFailure(e) ==
    [reading |-> Nil, err |-> WeatherServiceError("Failed to decode weather data", e)]

FlagFailure_NoReason(reason) ==
    [reading |-> Nil, err |-> WeatherServiceError("Weather API error", "")]

\* server.go:73-79
FlagFailure(reason) ==
    [reading |-> Nil, err |-> WeatherServiceError("Weather API error", reason)]

Success_RawClock(request, data, t) ==
    [reading |-> [Temperature |-> data.Temperature,
                  Location |-> request.Location,
                  Timestamp |-> t,
                  Unit |-> "celsius"],
     err |-> Nil]

Success_ResolvedName(request, data, t) ==
    [reading |-> [Temperature |-> data.Temperature,
                  Location |-> IF Normalised(request.Location) \in DOMAIN coordinates
                               THEN Normalised(request.Location) ELSE "new york",
                  Timestamp |-> Unix(t),
                  Unit |-> "celsius"],
     err |-> Nil]

\* server.go:84-91
Success(request, data, t) ==
    [reading |-> [Temperature |-> data.Temperature,
                  Location |-> request.Location,
                  Timestamp |-> Unix(t),
                  Unit |-> "celsius"],
     err |-> Nil]

Outcome_FetchErrorAsReading(request, response, t) ==
    IF response.kind = "fetch_error"
    THEN Success(request, [Temperature |-> 0, Error |-> FALSE, Reason |-> ""], t)
    ELSE IF ~response.read.ok THEN ReadFailure(response.read.err)
    ELSE IF response.status # 200 THEN StatusFailure(response.status)
    ELSE LET decoded == Unmarshal(response.read.body) IN
         IF decoded.err # Nil THEN DecodeFailure(decoded.err.error)
         ELSE IF decoded.data.Error THEN FlagFailure(decoded.data.Reason)
         ELSE Success(request, decoded.data, t)

Outcome_DecodeBeforeStatus(request, response, t) ==
    IF response.kind = "fetch_error" THEN FetchFailure(response.err)
    ELSE IF ~response.read.ok THEN ReadFailure(response.read.err)
    ELSE LET decoded == Unmarshal(response.read.body) IN
         IF decoded.err # Nil THEN DecodeFailure(decoded.err.error)
         ELSE IF decoded.data.Error THEN FlagFailure(decoded.data.Reason)
         ELSE IF response.status # 200 THEN StatusFailure(response.status)
         ELSE Success(request, decoded.data, t)

\* server.go:36-91: the checks in the order the code makes them
Outcome(request, response, t) ==
    IF response.kind = "fetch_error" THEN FetchFailure(response.err)
    ELSE IF ~response.read.ok THEN ReadFailure(response.read.err)
    ELSE IF response.status # 200 THEN StatusFailure(response.status)
    ELSE LET decoded == Unmarshal(response.read.body) IN
         IF decoded.err # Nil THEN DecodeFailure(decoded.err.error)
         ELSE IF decoded.data.Error THEN FlagFailure(decoded.data.Reason)
         ELSE Success(request, decoded.data, t)

AfterResponse_RetryFetch(response) ==
    IF response.kind = "fetch_error" THEN "get" ELSE "returned"

\* server.go:36-91: every path out of the single http.Get is a return
AfterResponse(response) ==
    "returned"

(***************************************************************************)
(* The handler as a state machine.                                         *)
(***************************************************************************)
HandlerInit ==
    /\ pc = "idle"
    /\ req = Nil
    /\ latitude = 0
    /\ longitude = 0
    /\ url = Nil
    /\ resp = Nil
    /\ result = Nil
    /\ gets = 0
    /\ clock = 0

\* server.go:26-34: a call arrives; resolve the coordinates, build the URL
GetTemperatureCall(location) ==
    /\ pc \in {"idle", "returned"}
    /\ pc' = "get"
    /\ req' = [Location |-> location]
    /\ latitude' = getCoordinatesForLocation(location)[1]
    /\ longitude' = getCoordinatesForLocation(location)[2]
    /\ url' = FormatUrl(getCoordinatesForLocation(location)[1],
                        getCoordinatesForLocation(location)[2])
    /\ resp' = Nil
    /\ result' = Nil
    /\ gets' = 0
    /\ UNCHANGED clock
    /\ UNCHANGED <<bridgeVars, conversionVars, clientVars>>

\* server.go:36 and 46: http.Get(url) and io.ReadAll(resp.Body); the
\* forecast API decides what comes back
HttpGet(response) ==
    /\ pc = "get"
    /\ pc' = "got"
    /\ resp' = response
    /\ gets' = gets + 1
    /\ UNCHANGED <<req, latitude, longitude, url, result, clock>>
    /\ UNCHANGED <<bridgeVars, conversionVars, clientVars>>

\* server.go:37-91: the checks and the return
GetTemperatureReturn ==
    /\ pc = "got"
    /\ pc' = AfterResponse(resp)
    /\ result' = Outcome(req, resp, clock)
    /\ UNCHANGED <<req, latitude, longitude, url, resp, gets, clock>>
    /\ UNCHANGED <<bridgeVars, conversionVars, clientVars>>

\* the wall clock advances
Tick ==
    /\ clock < MaxClock
    /\ clock' = clock + 1
    /\ UNCHANGED <<pc, req, latitude, longitude, url, resp, result, gets>>
    /\ UNCHANGED <<bridgeVars, conversionVars, clientVars>>

HandlerNext ==
    \/ \E location \in Locations : GetTemperatureCall(location)
    \/ \E response \in Responses : HttpGet(response)
    \/ GetTemperatureReturn
    \/ Tick


(***************************************************************************)
(* The HTTP bridges.  A member of a request body is a JavaScript value:    *)
(* undefined (absent), null, a string, a number or a boolean.              *)
(***************************************************************************)
JNull == [t |-> "null"]

Falsy_EmptyStringAccepted(v) ==
    \/ v.t \in {"absent", "null"}
    \/ v.t = "number" /\ v.v = 0
    \/ v.t = "bool" /\ ~v.v

\* part_008:37 `!location`, server.ts:70 `!prompt`: JavaScript's ToBoolean
Falsy(v) ==
    \/ v.t \in {"absent", "null"}
    \/ v.t = "string" /\ v.v = ""
    \/ v.t = "number" /\ v.v = 0
    \/ v.t = "bool" /\ ~v.v

DefaultTemperature == 7
DefaultMaxLength == 512

\* server.ts:79-80 `v || d`: d when v is falsy, v otherwise
OrDefault(v, d) ==
    IF Falsy(v) THEN d ELSE v.v

\* server.ts:77-81: the TextGenerationRequest built from req.body, the
\* temperature in tenths
GenerationRequest(b) ==
    [prompt |-> b.prompt.v,
     temperature |-> OrDefault(b.temperature, DefaultTemperature),
     max_length |-> OrDefault(b.maxTokens, DefaultMaxLength)]

LocationInputs == {JAbsent, JNull, JStr(""), JStr("london"), JStr("paris")}
PromptInputs == {JAbsent, JStr(""), JNum(0), JStr("Once upon a time"), JStr("Tell me a joke")}

\* what the forecast API does while the weather server serves a bridge call
BridgeUpstream ==
    {[kind |-> "fetch_error", err |-> "dial tcp: lookup api.open-meteo.com: no such host"],
     [kind |-> "response", status |-> 500,
      read |-> [ok |-> TRUE, body |-> [json |-> FALSE, perr |-> "invalid character '<' looking for beginning of value"]]],
     [kind |-> "response", status |-> 200,
      read |-> [ok |-> TRUE, body |-> [json |-> FALSE, perr |-> "unexpected end of JSON input"]]],
     [kind |-> "response", status |-> 200,
      read |-> [ok |-> TRUE,
                body |-> [json |-> TRUE, temperature_2m |-> JNum(205),
                          error |-> JBool(FALSE), reason |-> JAbsent]]]}

\* the generated Thrift client hands a declared exception to the callback
\* as a JavaScript Error carrying the exception's fields
ThriftError(e) ==
    [isError |-> TRUE, name |-> e.type, message |-> e.message, details |-> e.details]

\* what the weather server answers to getTemperature(args): the handler's
\* outcome for some upstream behaviour
WeatherReplies(args) ==
    {LET o == Outcome([Location |-> args.location], u, clock) IN
        IF o.err = Nil
        THEN [err |-> Nil, upstream |-> u,
              response |-> [temperature |-> o.reading.Temperature,
                            location |-> o.reading.Location,
                            timestamp |-> o.reading.Timestamp,
                            unit |-> o.reading.Unit]]
        ELSE [err |-> ThriftError(o.err), upstream |-> u, response |-> Nil] :
     u \in BridgeUpstream}

\* what the language-model server answers to generateText(args)
LlmReplies(args) ==
    {[err |-> Nil, upstream |-> Nil,
      response |-> [generated_text |-> "Generated text for: " \o args.prompt,
                    generation_time |-> 1, input_tokens |-> 4, generated_tokens |-> 20]],
     [err |-> [isError |-> TRUE, name |-> "ModelError",
               message |-> "Text generation failed", details |-> "model unavailable"],
      upstream |-> Nil, response |-> Nil]}

Replies(call) ==
    IF call.method = "getTemperature" THEN WeatherReplies(call.args) ELSE LlmReplies(call.args)

\* thrift.createConnection(...): a socket that has not connected yet
NewConnection(owner) ==
    [owner |-> owner, connected |-> FALSE, ended |-> FALSE, closed |-> FALSE]

\* part_008:85-88, server.ts:107-110
ErrorBody(text, error) ==
    [error |-> text,
     details |-> IF error.isError THEN error.message ELSE "Unknown error"]

(***************************************************************************)
(* 64-bit timestamps.  An integer is a sign and its decimal digits, most   *)
(* significant first; a Buffer is a sequence of bytes.                     *)
(***************************************************************************)
RECURSIVE NatDigits(_)
NatDigits(n) ==
    IF n < 10 THEN <<n>> ELSE Append(NatDigits(n \div 10), n % 10)

RECURSIVE StripZeros(_)
StripZeros(ds) ==
    IF Len(ds) > 1 /\ ds[1] = 0 THEN StripZeros(Tail(ds)) ELSE ds

RECURSIVE MulAddFrom(_, _, _, _)
MulAddFrom(ds, i, m, carry) ==
    IF i = 0
    THEN IF carry = 0 THEN <<>> ELSE NatDigits(carry)
    ELSE LET v == ds[i] * m + carry
         IN  Append(MulAddFrom(ds, i - 1, m, v \div 10), v % 10)

\* ds * m + a
MulAdd(ds, m, a) ==
    StripZeros(<<0>> \o MulAddFrom(ds, Len(ds), m, a))

RECURSIVE DivModFrom(_, _, _, _)
DivModFrom(ds, i, d, r) ==
    IF i > Len(ds)
    THEN [q |-> <<>>, r |-> r]
    ELSE LET v == r * 10 + ds[i]
             rest == DivModFrom(ds, i + 1, d, v % d)
         IN  [q |-> <<v \div d>> \o rest.q, r |-> rest.r]

\* quotient and remainder of ds by d
DivMod(ds, d) ==
    LET x == DivModFrom(ds, 1, d, 0)
    IN  [q |-> StripZeros(<<0>> \o x.q), r |-> x.r]

RECURSIVE LessFrom(_, _, _)
LessFrom(a, b, i) ==
    IF i > Len(a) THEN FALSE
    ELSE IF a[i] # b[i] THEN a[i] < b[i]
    ELSE LessFrom(a, b, i + 1)

Less(a, b) ==
    \/ Len(a) < Len(b)
    \/ Len(a) = Len(b) /\ LessFrom(a, b, 1)

DigitOf(c) ==
    CHOOSE d \in 0..9 : ToString(d) = c

\* the integer a decimal numeral denotes
Parse(numeral) ==
    LET neg == SubSeq(numeral, 1, 1) = "-"
        first == IF neg THEN 2 ELSE 1
    IN  [neg |-> neg,
         digits |-> [i \in 1..(Len(numeral) - first + 1) |->
                        DigitOf(SubSeq(numeral, i + first - 1, i + first - 1))]]

RECURSIVE DigitString(_)
DigitString(ds) ==
    IF ds = <<>> THEN "" ELSE ToString(Head(ds)) \o DigitString(Tail(ds))

\* the decimal numeral of an integer
Format(neg, ds) ==
    (IF neg /\ ds # <<0>> THEN "-" ELSE "") \o DigitString(ds)

RECURSIVE ToBytes(_, _)
\* the n low-order bytes of a magnitude, big-endian
ToBytes(ds, n) ==
    IF n = 0 THEN <<>>
    ELSE LET x == DivMod(ds, 256) IN Append(ToBytes(x.q, n - 1), x.r)

RECURSIVE FromBytes(_, _)
\* the magnitude the first i bytes hold, big-endian
FromBytes(bytes, i) ==
    IF i = 0 THEN <<0>> ELSE MulAdd(FromBytes(bytes, i - 1), 256, bytes[i])

RECURSIVE Increment(_, _)
Increment(bytes, i) ==
    IF i = 0 THEN bytes
    ELSE IF bytes[i] = 255 THEN Increment([bytes EXCEPT ![i] = 0], i - 1)
    ELSE [bytes EXCEPT ![i] = @ + 1]

TwosComplement(bytes) ==
    Increment([i \in 1..Len(bytes) |-> 255 - bytes[i]], Len(bytes))

\* weather.thrift:7: an i64 on the wire, eight bytes, big-endian, two's
\* complement
WriteInt64(v) ==
    IF v.neg THEN TwosComplement(ToBytes(v.digits, 8)) ELSE ToBytes(v.digits, 8)

readBigInt64BE_Unsigned(bytes) ==
    [kind |-> "bigint", neg |-> FALSE, digits |-> FromBytes(bytes, 8)]

\* part_008:63 and 70: Buffer.readBigInt64BE()
readBigInt64BE(bytes) ==
    IF bytes[1] >= 128
    THEN [kind |-> "bigint", neg |-> TRUE, digits |-> FromBytes(TwosComplement(bytes), 8)]
    ELSE [kind |-> "bigint", neg |-> FALSE, digits |-> FromBytes(bytes, 8)]

\* part_008:69: Buffer.from(timestamp.data)
BufferFrom(data) ==
    [i \in 1..Len(data) |-> data[i] % 256]

TwoTo53 == <<9, 0, 0, 7, 1, 9, 9, 2, 5, 4, 7, 4, 0, 9, 9, 2>>

RECURSIVE ShiftFrom(_, _)
\* how many low bits a magnitude below 2^64 loses in a 53-bit significand
ShiftFrom(ds, d) ==
    IF Less(DivMod(ds, 2^d).q, TwoTo53) THEN d ELSE ShiftFrom(ds, d + 1)

\* the IEEE 754 double nearest to a magnitude, ties to even
RoundToDouble(ds) ==
    LET d == ShiftFrom(ds, 0)
        x == DivMod(ds, 2^d)
        odd == DivMod(x.q, 2).r = 1
        up == d > 0 /\ (2 * x.r > 2^d \/ (2 * x.r = 2^d /\ odd))
    IN  MulAdd(IF up THEN MulAdd(x.q, 1, 1) ELSE x.q, 2^d, 0)

Zeros(n) ==
    [i \in 1..n |-> 0]

RoundedDown(ds, k) ==
    SubSeq(ds, 1, k) \o Zeros(Len(ds) - k)

RoundedUp(ds, k) ==
    MulAdd(SubSeq(ds, 1, k), 1, 1) \o Zeros(Len(ds) - k)

\* Number::toString on an integral double below 10^21: the fewest
\* significant digits that still denote this double, then zeros
ShortestDigits(ds) ==
    LET Denotes(c) == RoundToDouble(c) = ds
        Enough(k) == Denotes(RoundedDown(ds, k)) \/ Denotes(RoundedUp(ds, k))
        k == CHOOSE n \in 1..Len(ds) : Enough(n) /\ \A j \in 1..(n - 1) : ~Enough(j)
        nearest == IF k < Len(ds) /\ ds[k + 1] >= 5 THEN RoundedUp(ds, k) ELSE RoundedDown(ds, k)
        other == IF k < Len(ds) /\ ds[k + 1] >= 5 THEN RoundedDown(ds, k) ELSE RoundedUp(ds, k)
    IN  IF Denotes(nearest) THEN nearest ELSE other

\* a JavaScript number holding an integer
NumberValue(n) ==
    [kind |-> "number", neg |-> n < 0, digits |-> NatDigits(IF n < 0 THEN 0 - n ELSE n)]

\* the number nearest to an integer
ToNumber(v) ==
    [kind |-> "number", neg |-> v.neg, digits |-> RoundToDouble(v.digits)]

\* part_008:60-72: result.timestamp decoded when it is a Buffer or a
\* serialized Buffer, left as it is otherwise
DecodedTimestamp(timestamp) ==
    IF timestamp.kind = "Buffer"
    THEN readBigInt64BE(timestamp.bytes)
    ELSE IF timestamp.kind = "object" /\ timestamp.type = "Buffer"
    THEN readBigInt64BE(BufferFrom(timestamp.data))
    ELSE timestamp

\* part_008:77: String(timestamp) of a bigint or a number
String(v) ==
    IF v.kind = "bigint"
    THEN Format(v.neg, v.digits)
    ELSE Format(v.neg, ShortestDigits(v.digits))

\* part_008:60-79: the timestamp of the reading as a string
TimestampString(timestamp) ==
    String(DecodedTimestamp(NumberValue(timestamp)))

TemperatureBody_NoUnit(r) ==
    [temperature |-> r.temperature,
     location |-> r.location,
     timestamp |-> TimestampString(r.timestamp)]

\* part_008:74-82
TemperatureBody(r) ==
    [temperature |-> r.temperature,
     location |-> r.location,
     timestamp |-> TimestampString(r.timestamp),
     unit |-> r.unit]

\* server.ts:99-104
LlmBody(r) ==
    [text |-> r.generated_text,
     generationTime |-> r.generation_time,
     inputTokens |-> r.input_tokens,
     generatedTokens |-> r.generated_tokens]

RejectedCall_Retried(cs, k) ==
    Append([cs EXCEPT ![k].state = "failed", ![k].doneAt = Len(requests)],
           [cs[k] EXCEPT !.state = "pending"])

\* part_008:50-52, server.ts:87-91: the callback got an error; reject(err).
\* doneAt records how many HTTP requests had arrived by then.
RejectedCall(cs, k) ==
    [cs EXCEPT ![k].state = "failed", ![k].doneAt = Len(requests)]

\* part_008:53-55, server.ts:92-94: the callback got a response; resolve(response)
ResolvedCall(cs, k) ==
    [cs EXCEPT ![k].state = "answered", ![k].doneAt = Len(requests)]

ClientAfterRpcError_Kept(method) ==
    thriftClient

\* server.ts:89-90: the cached client is reset when generateText fails;
\* part_008:50-52 has no cached client
ClientAfterRpcError(method) ==
    IF method = "generateText" THEN 0 ELSE thriftClient

EndCached_Skipped(conns, c) ==
    conns

\* server.ts:28-35: the existing connection, if any, is ended
EndCached(conns, c) ==
    IF c # 0 THEN [conns EXCEPT ![c].ended = TRUE] ELSE conns

CachedClientUsable_Never ==
    FALSE

\* server.ts:24: the cached client is reused
CachedClientUsable ==
    /\ thriftClient # 0
    /\ thriftConnection # 0
    /\ connections[thriftConnection].connected

BridgeInit ==
    /\ requests = <<>>
    /\ responses = <<>>
    /\ connections = <<>>
    /\ calls = <<>>
    /\ thriftClient = 0
    /\ thriftConnection = 0

\* part_008:33-39: POST /api/temperature without a usable location
PostTemperatureInvalid(location) ==
    /\ Len(requests) < MaxRequests
    /\ Falsy(location)
    /\ requests' = Append(requests, [endpoint |-> "temperature", field |-> location,
                                     client |-> 0])
    /\ responses' = Append(responses,
                           <<[status |-> 400, body |-> [error |-> "Location is required"]]>>)
    /\ UNCHANGED <<connections, calls, thriftClient, thriftConnection>>
    /\ UNCHANGED <<handlerVars, conversionVars, clientVars>>

\* part_008:33-58 with createThriftClient, part_008:20-31: a new connection
\* for this request, one getTemperature call on it, then the await
PostTemperature(location) ==
    /\ Len(requests) < MaxRequests
    /\ ~Falsy(location)
    /\ connections' = Append(connections, NewConnection("weather"))
    /\ requests' = Append(requests, [endpoint |-> "temperature", field |-> location,
                                     client |-> Len(connections) + 1])
    /\ responses' = Append(responses, <<>>)
    /\ calls' = Append(calls, [request |-> Len(requests) + 1,
                               conn |-> Len(connections) + 1,
                               method |-> "getTemperature",
                               args |-> [location |-> location.v],
                               state |-> "pending",
                               doneAt |-> 0,
                               reply |-> Nil])
    /\ UNCHANGED <<thriftClient, thriftConnection>>
    /\ UNCHANGED <<handlerVars, conversionVars, clientVars>>

PostLlmInvalid_ClientFirst(prompt) ==
    /\ Len(requests) < MaxRequests
    /\ Falsy(prompt)
    /\ requests' = Append(requests, [endpoint |-> "llm", field |-> prompt, client |-> 0])
    /\ responses' = Append(responses,
                           <<[status |-> 400, body |-> [error |-> "Prompt is required"]]>>)
    /\ connections' = Append(EndCached(connections, thriftConnection), NewConnection("llm"))
    /\ thriftConnection' = Len(connections) + 1
    /\ thriftClient' = Len(connections) + 1
    /\ UNCHANGED calls
    /\ UNCHANGED <<handlerVars, conversionVars, clientVars>>

\* server.ts:66-72: POST /api/llm without a usable prompt
PostLlmInvalid(prompt) ==
    /\ Len(requests) < MaxRequests
    /\ Falsy(prompt)
    /\ requests' = Append(requests, [endpoint |-> "llm", field |-> prompt, client |-> 0])
    /\ responses' = Append(responses,
                           <<[status |-> 400, body |-> [error |-> "Prompt is required"]]>>)
    /\ UNCHANGED <<connections, calls, thriftClient, thriftConnection>>
    /\ UNCHANGED <<handlerVars, conversionVars, clientVars>>

\* server.ts:66-97 with createThriftClient, server.ts:23-26: the cached
\* client is usable and carries the generateText call
PostLlmReuse(prompt) ==
    /\ Len(requests) < MaxRequests
    /\ ~Falsy(prompt)
    /\ CachedClientUsable
    /\ requests' = Append(requests, [endpoint |-> "llm", field |-> prompt,
                                     client |-> thriftClient])
    /\ responses' = Append(responses, <<>>)
    /\ calls' = Append(calls, [request |-> Len(requests) + 1,
                               conn |-> thriftClient,
                               method |-> "generateText",
                               args |-> GenerationRequest([prompt |-> prompt,
                                                           temperature |-> JAbsent,
                                                           maxTokens |-> JAbsent]),
                               state |-> "pending",
                               doneAt |-> 0,
                               reply |-> Nil])
    /\ UNCHANGED <<connections, thriftClient, thriftConnection>>
    /\ UNCHANGED <<handlerVars, conversionVars, clientVars>>

\* server.ts:66-97 with createThriftClient, server.ts:28-63: the existing
\* connection, if any, is ended; a new connection and client replace it
\* and carry the generateText call
PostLlmConnect(prompt) ==
    /\ Len(requests) < MaxRequests
    /\ ~Falsy(prompt)
    /\ ~CachedClientUsable
    /\ connections' = Append(EndCached(connections, thriftConnection), NewConnection("llm"))
    /\ thriftConnection' = Len(connections) + 1
    /\ thriftClient' = Len(connections) + 1
    /\ requests' = Append(requests, [endpoint |-> "llm", field |-> prompt,
                                     client |-> Len(connections) + 1])
    /\ responses' = Append(responses, <<>>)
    /\ calls' = Append(calls, [request |-> Len(requests) + 1,
                               conn |-> Len(connections) + 1,
                               method |-> "generateText",
                               args |-> GenerationRequest([prompt |-> prompt,
                                                           temperature |-> JAbsent,
                                                           maxTokens |-> JAbsent]),
                               state |-> "pending",
                               doneAt |-> 0,
                               reply |-> Nil])
    /\ UNCHANGED <<handlerVars, conversionVars, clientVars>>

\* the callback of call k gets an error: part_008:50-52 and 83-89,
\* server.ts:87-91 and 105-111
RpcFailed(k, reply) ==
    /\ calls[k].state = "pending"
    /\ connections[calls[k].conn].connected
    /\ reply.err # Nil
    /\ calls' = [RejectedCall(calls, k) EXCEPT ![k].reply = reply]
    /\ responses' =
          [responses EXCEPT ![calls[k].request] =
              Append(@, [status |-> 500,
                         body |-> ErrorBody(IF calls[k].method = "getTemperature"
                                            THEN "Failed to get temperature data"
                                            ELSE "Failed to generate text",
                                            reply.err)])]
    /\ thriftClient' = ClientAfterRpcError(calls[k].method)
    /\ UNCHANGED <<requests, connections, thriftConnection>>
    /\ UNCHANGED <<handlerVars, conversionVars, clientVars>>

\* the callback of call k gets a response: part_008:53-82, server.ts:92-104
RpcAnswered(k, reply) ==
    /\ calls[k].state = "pending"
    /\ connections[calls[k].conn].connected
    /\ reply.err = Nil
    /\ calls' = [ResolvedCall(calls, k) EXCEPT ![k].reply = reply]
    /\ responses' =
          [responses EXCEPT ![calls[k].request] =
              Append(@, [status |-> 200,
                         body |-> IF calls[k].method = "getTemperature"
                                  THEN TemperatureBody(reply.response)
                                  ELSE LlmBody(reply.response)])]
    /\ UNCHANGED <<requests, connections, thriftClient, thriftConnection>>
    /\ UNCHANGED <<handlerVars, conversionVars, clientVars>>

\* the socket of connection c connects: "connect", part_008 has no
\* listener, server.ts:50-52 logs.  A connection ended by server.ts:30
\* before it connected never carries its queued calls: the socket's
\* writable side is finished, so nothing queued is written to the server.
ConnectionConnect(c) ==
    /\ ~connections[c].connected
    /\ ~connections[c].closed
    /\ ~connections[c].ended
    /\ connections' = [connections EXCEPT ![c].connected = TRUE]
    /\ UNCHANGED <<requests, responses, calls, thriftClient, thriftConnection>>
    /\ UNCHANGED <<handlerVars, conversionVars, clientVars>>

\* connection c emits "error": part_008:26-28 logs, server.ts:45-48 also
\* clears the cached client
ConnectionError(c) ==
    /\ ~connections[c].closed
    /\ connections' = [connections EXCEPT ![c].connected = FALSE]
    /\ thriftClient' = IF connections[c].owner = "llm" THEN 0 ELSE thriftClient
    /\ UNCHANGED <<requests, responses, calls, thriftConnection>>
    /\ UNCHANGED <<handlerVars, conversionVars, clientVars>>

\* connection c emits "close": part_008 has no listener, server.ts:54-57
\* clears the cached client
ConnectionClose(c) ==
    /\ ~connections[c].closed
    /\ connections' = [connections EXCEPT ![c].connected = FALSE, ![c].closed = TRUE]
    /\ thriftClient' = IF connections[c].owner = "llm" THEN 0 ELSE thriftClient
    /\ UNCHANGED <<requests, responses, calls, thriftConnection>>
    /\ UNCHANGED <<handlerVars, conversionVars, clientVars>>

BridgeNext ==
    \/ \E location \in LocationInputs : PostTemperatureInvalid(location)
    \/ \E location \in LocationInputs : PostTemperature(location)
    \/ \E prompt \in PromptInputs : PostLlmInvalid(prompt)
    \/ \E prompt \in PromptInputs : PostLlmReuse(prompt)
    \/ \E prompt \in PromptInputs : PostLlmConnect(prompt)
    \/ \E k \in 1..Len(calls) : \E reply \in Replies(calls[k]) : RpcFailed(k, reply)
    \/ \E k \in 1..Len(calls) : \E reply \in Replies(calls[k]) : RpcAnswered(k, reply)
    \/ \E c \in 1..Len(connections) : ConnectionConnect(c)
    \/ \E c \in 1..Len(connections) : ConnectionError(c)
    \/ \E c \in 1..Len(connections) : ConnectionClose(c)

(***************************************************************************)
(* The timestamp of one reading on its way through the weather bridge.     *)
(***************************************************************************)
Timestamps ==
    {"0", "1", "-1", "255", "256", "-256", "65536", "1700000000", "-1700000000",
     "2147483648", "4294967295", "4294967296", "-4294967296",
     "9007199254740991", "9007199254740992", "-9007199254740992",
     "9007199254740993", "-9007199254740995", "123456789012345678",
     "4611686018427387904", "1234567890123456789",
     "9223372036854775807", "-9223372036854775808"}

Carriers == {"Buffer", "serialized", "number"}

\* part_008:61: result.timestamp holding the i64 t
Carry(t, carrier) ==
    IF carrier = "Buffer"
    THEN [kind |-> "Buffer", bytes |-> WriteInt64(Parse(t))]
    ELSE IF carrier = "serialized"
    THEN [kind |-> "object", type |-> "Buffer", data |-> WriteInt64(Parse(t))]
    ELSE ToNumber(Parse(t))

ConversionInit ==
    /\ stamp = ""
    /\ carried = Nil
    /\ emitted = ""
    /\ reqBody = Nil
    /\ generationRequest = Nil

\* part_008:48-61: the callback resolves with a reading whose timestamp is t
ReceiveTimestamp(t, carrier) ==
    /\ carried = Nil \/ emitted # ""
    /\ stamp' = t
    /\ carried' = Carry(t, carrier)
    /\ emitted' = ""
    /\ UNCHANGED <<reqBody, generationRequest>>
    /\ UNCHANGED <<handlerVars, bridgeVars, clientVars>>

\* part_008:60-79: the timestamp member of the response
EmitTimestamp ==
    /\ carried # Nil
    /\ emitted = ""
    /\ emitted' = String(DecodedTimestamp(carried))
    /\ UNCHANGED <<stamp, carried, reqBody, generationRequest>>
    /\ UNCHANGED <<handlerVars, bridgeVars, clientVars>>

\* part_005:79 and 92: the temperature input, 0 to 2 in steps of 0.1, in
\* tenths; null is what JSON.stringify sends for an empty input
TemperatureInputs == {JAbsent, JNull, JNum(0), JNum(1), JNum(7), JNum(10), JNum(15), JNum(20)}

\* part_005:83 and 93: the maxTokens input
MaxTokensInputs == {JAbsent, JNull, JNum(0), JNum(1), JNum(100), JNum(512), JNum(2048)}

LlmBodies ==
    [prompt : PromptInputs, temperature : TemperatureInputs, maxTokens : MaxTokensInputs]

\* server.ts:66-72: a body without a usable prompt builds no request
RejectBody(b) ==
    /\ Falsy(b.prompt)
    /\ reqBody' = b
    /\ generationRequest' = Nil
    /\ UNCHANGED <<stamp, carried, emitted>>
    /\ UNCHANGED <<handlerVars, bridgeVars, clientVars>>

\* server.ts:66-81: the request built from a body with a prompt
BuildRequest(b) ==
    /\ ~Falsy(b.prompt)
    /\ reqBody' = b
    /\ generationRequest' = GenerationRequest(b)
    /\ UNCHANGED <<stamp, carried, emitted>>
    /\ UNCHANGED <<handlerVars, bridgeVars, clientVars>>

RequestNext ==
    \/ \E b \in LlmBodies : RejectBody(b)
    \/ \E b \in LlmBodies : BuildRequest(b)

TimestampNext ==
    \/ \E t \in Timestamps : \E carrier \in Carriers : ReceiveTimestamp(t, carrier)
    \/ EmitTimestamp

(***************************************************************************)
(* The Go RPC client: main of part_009, in its two variants.               *)
(***************************************************************************)
Variants == {"conf", "socket"}

\* part_009:34-38, 49-56, 68-76: the three requests, in program order
Program ==
    <<[method |-> "generateText",
       request |-> [Prompt |-> "Once upon a time in Silicon Valley,",
                    MaxLength |-> 150, Temperature |-> 8]],
      [method |-> "classifyText",
       request |-> [Text |-> "I absolutely loved this movie! The acting was superb and the story was engaging.",
                    Labels |-> <<"positive", "negative", "neutral">>]],
      [method |-> "classifyText",
       request |-> [Text |-> "Python is a versatile programming language with great libraries for machine learning and data science.",
                    Labels |-> <<"technology", "sports", "entertainment", "education">>]]>>

\* what a call can return: a result of the method's response type, a
\* declared ModelError, or a transport error
CallErrors ==
    {[type |-> "ModelError", message |-> "Text generation failed"],
     [type |-> "TTransportException", message |-> "EOF"]}

Results(call) ==
    IF call.method = "generateText"
    THEN {[err |-> Nil,
           result |-> [GeneratedText |-> call.request.Prompt \o text, GenerationTime |-> 12]] :
             text \in {" a founder", " an engineer"}}
         \cup {[err |-> e, result |-> Nil] : e \in CallErrors}
    ELSE {[err |-> Nil,
           result |-> [Label |-> call.request.Labels[i], Confidence |-> 90,
                       ClassificationTime |-> 3]] :
             i \in 1..Len(call.request.Labels)}
         \cup {[err |-> e, result |-> Nil] : e \in CallErrors}

ClientInit ==
    /\ variant = "none"
    /\ mainPc = "new"
    /\ transport = "none"
    /\ issued = <<>>
    /\ exitCode = Nil

AfterError_Continue(position) ==
    position

\* part_009:29, 43, 61, 81 (and 103, 112, 126, 144, 164): log.Fatal
AfterError(position) ==
    "exited"

\* part_009:20 and 101-104: the socket is created, or NewTSocket fails
NewSocket(v, ok) ==
    /\ mainPc = "new"
    /\ ok \/ v = "socket"
    /\ variant' = v
    /\ transport' = IF ok THEN "closed" ELSE "none"
    /\ mainPc' = IF ok THEN "open" ELSE AfterError("open")
    /\ exitCode' = IF ok THEN Nil ELSE [code |-> 1]
    /\ UNCHANGED issued
    /\ UNCHANGED <<handlerVars, bridgeVars, conversionVars>>

\* part_009:28-30 and 111-113: transport.Open()
Open(ok) ==
    /\ mainPc = "open"
    /\ transport' = IF ok THEN "open" ELSE "closed"
    /\ mainPc' = IF ok THEN "call" ELSE AfterError("call")
    /\ exitCode' = IF ok THEN Nil ELSE [code |-> 1]
    /\ UNCHANGED <<variant, issued>>
    /\ UNCHANGED <<handlerVars, bridgeVars, conversionVars>>

\* part_009:41, 59, 79: the next call of the program is sent
Issue ==
    /\ mainPc = "call"
    /\ Len(issued) < Len(Program)
    /\ issued' = Append(issued, [call |-> Program[Len(issued) + 1], opened |-> transport = "open",
                                 outcome |-> Nil])
    /\ mainPc' = "wait"
    /\ UNCHANGED <<variant, transport, exitCode>>
    /\ UNCHANGED <<handlerVars, bridgeVars, conversionVars>>

\* part_009:41-47, 59-66, 79-86: the call returns; an error is fatal
Return(outcome) ==
    /\ mainPc = "wait"
    /\ issued' = [issued EXCEPT ![Len(issued)].outcome = outcome]
    /\ mainPc' = IF outcome.err = Nil THEN "call" ELSE AfterError("call")
    /\ exitCode' = IF outcome.err = Nil THEN Nil ELSE [code |-> 1]
    /\ UNCHANGED <<variant, transport>>
    /\ UNCHANGED <<handlerVars, bridgeVars, conversionVars>>

\* part_009:87 with 21 (and 170 with 105): main returns, the deferred
\* transport.Close() runs
Finish ==
    /\ mainPc = "call"
    /\ Len(issued) = Len(Program)
    /\ mainPc' = "exited"
    /\ transport' = "closed"
    /\ exitCode' = [code |-> 0]
    /\ UNCHANGED <<variant, issued>>
    /\ UNCHANGED <<handlerVars, bridgeVars, conversionVars>>

ClientNext ==
    \/ \E v \in Variants : \E ok \in BOOLEAN : NewSocket(v, ok)
    \/ \E ok \in BOOLEAN : Open(ok)
    \/ Issue
    \/ mainPc = "wait" /\ \E outcome \in Results(issued[Len(issued)].call) : Return(outcome)
    \/ Finish

vars == <<handlerVars, bridgeVars, conversionVars, clientVars>>

Init == HandlerInit /\ BridgeInit /\ ConversionInit /\ ClientInit

\* the weather handler serving calls
Spec == Init /\ [][HandlerNext]_vars

\* the two bridges serving HTTP requests
SpecBridge == Init /\ [][BridgeNext]_vars

\* the weather bridge converting timestamps
SpecTimestamp == Init /\ [][TimestampNext]_vars

\* the language-model bridge building requests
SpecRequest == Init /\ [][RequestNext]_vars

\* the Go RPC client running once
SpecClient == Init /\ [][ClientNext]_vars

\* the bridges while the network is sound: no socket emits "error" or
\* "close"
LiveNext ==
    \/ \E location \in LocationInputs : PostTemperatureInvalid(location)
    \/ \E location \in LocationInputs : PostTemperature(location)
    \/ \E prompt \in PromptInputs : PostLlmInvalid(prompt)
    \/ \E prompt \in PromptInputs : PostLlmReuse(prompt)
    \/ \E prompt \in PromptInputs : PostLlmConnect(prompt)
    \/ \E k \in 1..Len(calls) : \E reply \in Replies(calls[k]) : RpcFailed(k, reply)
    \/ \E k \in 1..Len(calls) : \E reply \in Replies(calls[k]) : RpcAnswered(k, reply)
    \/ \E c \in 1..Len(connections) : ConnectionConnect(c)

\* a socket that can connect does, and the RPC server answers every call
\* it has received: the event loop runs every callback that is due
Callbacks ==
    \/ \E k \in 1..Len(calls) : \E reply \in Replies(calls[k]) : RpcFailed(k, reply)
    \/ \E k \in 1..Len(calls) : \E reply \in Replies(calls[k]) : RpcAnswered(k, reply)

Connects ==
    \E c \in 1..Len(connections) : ConnectionConnect(c)

SpecBridgeLive ==
    /\ Init
    /\ [][LiveNext]_vars
    /\ WF_vars(Callbacks)
    /\ WF_vars(Connects)

(***************************************************************************)
(* Vocabulary of the properties below.                                     *)
(***************************************************************************)
TableKeys == {"new york", "london", "tokyo", "paris", "sydney", "san francisco"}

\* the pair the coordinate table is documented to give
ExpectedCoordinates(location) ==
    CASE location = "new york" -> <<407128, -740060>>
      [] location = "london" -> <<515074, -1278>>
      [] location = "tokyo" -> <<356762, 1396503>>
      [] location = "paris" -> <<488566, 23522>>
      [] location = "sydney" -> <<-338688, 1512093>>
      [] location = "san francisco" -> <<377749, -1224194>>
      [] OTHER -> <<407128, -740060>>

\* s occurs in text
Contains(text, s) ==
    \E i \in 1..(Len(text) + 1) :
        /\ i + Len(s) - 1 <= Len(text)
        /\ SubSeq(text, i, i + Len(s) - 1) = s

\* the body is a JSON object whose members have the types the payload expects
Decodable(body) ==
    /\ body.json
    /\ body.temperature_2m.t \in {"absent", "number"}
    /\ body.error.t \in {"absent", "bool"}

\* the upstream call answered 200 with a decodable body whose error flag is not set
UpstreamOk(response) ==
    /\ response.kind = "response"
    /\ response.status = 200
    /\ response.read.ok
    /\ Decodable(response.read.body)
    /\ response.read.body.error # JBool(TRUE)

PayloadTemperature(body) ==
    IF body.temperature_2m.t = "number" THEN body.temperature_2m.v ELSE 0

(***************************************************************************)
(* C1.  Coordinate resolution: each of the six table keys resolves to its  *)
(* literal pair, every other string (empty, different case, surrounding    *)
(* spaces, unknown) to the New York pair; in server.go and in utils.go.    *)
(***************************************************************************)
C1_CoordinateResolution ==
    pc # "idle" =>
        /\ <<latitude, longitude>> = ExpectedCoordinates(req.Location)
        /\ GetCoordinatesForLocation(req.Location) = ExpectedCoordinates(req.Location)
        /\ (req.Location \notin TableKeys => <<latitude, longitude>> = <<407128, -740060>>)

C1_Witness ==
    /\ pc = "get"
    /\ req.Location = " london "
    /\ <<latitude, longitude>> = <<407128, -740060>>

(***************************************************************************)
(* C2.  When the upstream call answers 200 with a decodable body whose     *)
(* error flag is false, the step that returns from GetTemperature returns  *)
(* a reading with the payload's temperature, the request's location        *)
(* unchanged, unit "celsius" and the unix time of that moment, and no      *)
(* error.                                                                  *)
(***************************************************************************)
C2_SuccessReading ==
    [][(pc = "got" /\ pc' = "returned" /\ UpstreamOk(resp)) =>
          result' = [reading |-> [Temperature |-> PayloadTemperature(resp.read.body),
                                  Location |-> req.Location,
                                  Timestamp |-> clock \div 2,
                                  Unit |-> "celsius"],
                     err |-> Nil]]_vars

C2_Witness ==
    /\ pc = "returned"
    /\ UpstreamOk(resp)
    /\ req.Location = "london"
    /\ clock = 3
    /\ result.err = Nil
    /\ result.reading = [Temperature |-> 205, Location |-> "london",
                         Timestamp |-> 1, Unit |-> "celsius"]

(***************************************************************************)
(* C3.  A location absent from the table does not make GetTemperature      *)
(* fail: the upstream call is made with the New York coordinates, the      *)
(* call fails only if the upstream call did, and on upstream success the   *)
(* reading carries the original string as its location.                    *)
(***************************************************************************)
C3_UnknownLocationFallsBack ==
    (pc # "idle" /\ req.Location \notin TableKeys) =>
        /\ url.latitude = 40712800
        /\ url.longitude = -74006000
        /\ pc = "returned" =>
              /\ result.err # Nil => ~UpstreamOk(resp)
              /\ UpstreamOk(resp) =>
                    /\ result.reading # Nil
                    /\ result.reading.Location = req.Location

C3_Witness ==
    /\ pc = "returned"
    /\ req.Location = "unknown_city"
    /\ UpstreamOk(resp)
    /\ result.err = Nil
    /\ result.reading.Location = "unknown_city"

(***************************************************************************)
(* C4.  As claimed: whenever the upstream API answers with a status N      *)
(* other than 200, GetTemperature returns no reading and fails with        *)
(* WeatherServiceError{"Weather API error", "Status code: N"}.             *)
(***************************************************************************)
C4_Original ==
    (pc = "returned" /\ resp.kind = "response" /\ resp.status # 200) =>
        result = [reading |-> Nil,
                  err |-> [type |-> "WeatherServiceError",
                           message |-> "Weather API error",
                           details |-> "Status code: " \o ToString(resp.status)]]

(***************************************************************************)
(* C4, amended.  Whenever the upstream API answers with a status N other   *)
(* than 200 and the response body is read without error, GetTemperature    *)
(* returns no reading and fails with WeatherServiceError{"Weather API      *)
(* error", "Status code: N"}.                                              *)
(***************************************************************************)
C4_Non200AfterBodyRead ==
    (pc = "returned" /\ resp.kind = "response" /\ resp.status # 200 /\ resp.read.ok) =>
        result = [reading |-> Nil,
                  err |-> [type |-> "WeatherServiceError",
                           message |-> "Weather API error",
                           details |-> "Status code: " \o ToString(resp.status)]]

C4_Witness ==
    /\ pc = "returned"
    /\ resp.kind = "response"
    /\ resp.status = 500
    /\ resp.read.ok
    /\ result.reading = Nil
    /\ result.err.details = "Status code: 500"

(***************************************************************************)
(* C5.  As claimed: given a response whose payload has error = true and    *)
(* reason = X, GetTemperature fails with a WeatherServiceError with        *)
(* message "Weather API error" whose details contain X.                    *)
(***************************************************************************)
C5_Original ==
    (/\ pc = "returned"
     /\ resp.kind = "response"
     /\ resp.read.ok
     /\ Decodable(resp.read.body)
     /\ resp.read.body.error = JBool(TRUE)
     /\ resp.read.body.reason.t = "string") =>
        /\ result.reading = Nil
        /\ result.err # Nil
        /\ result.err.type = "WeatherServiceError"
        /\ result.err.message = "Weather API error"
        /\ Contains(result.err.details, resp.read.body.reason.v)

(***************************************************************************)
(* C5, amended.  Given a response with status 200 whose payload has        *)
(* error = true and reason = X, GetTemperature fails with a                *)
(* WeatherServiceError with message "Weather API error" whose details      *)
(* contain X.                                                              *)
(***************************************************************************)
C5_ErrorFlagOn200 ==
    (/\ pc = "returned"
     /\ resp.kind = "response"
     /\ resp.status = 200
     /\ resp.read.ok
     /\ Decodable(resp.read.body)
     /\ resp.read.body.error = JBool(TRUE)
     /\ resp.read.body.reason.t = "string") =>
        /\ result.reading = Nil
        /\ result.err # Nil
        /\ result.err.type = "WeatherServiceError"
        /\ result.err.message = "Weather API error"
        /\ Contains(result.err.details, resp.read.body.reason.v)

C5_Witness ==
    /\ pc = "returned"
    /\ resp.kind = "response"
    /\ resp.status = 200
    /\ resp.read.ok
    /\ Decodable(resp.read.body)
    /\ resp.read.body.error = JBool(TRUE)
    /\ resp.read.body.reason = JStr("Latitude must be in range of -90 to 90")
    /\ result.err.details = "Latitude must be in range of -90 to 90"

(***************************************************************************)
(* C6.  When the upstream API answers 200 with a body that cannot be       *)
(* decoded, GetTemperature returns no reading and fails with               *)
(* WeatherServiceError{"Failed to decode weather data", <the parse error   *)
(* text>}.                                                                 *)
(***************************************************************************)
C6_DecodeFailure ==
    (/\ pc = "returned"
     /\ resp.kind = "response"
     /\ resp.status = 200
     /\ resp.read.ok
     /\ ~Decodable(resp.read.body)) =>
        /\ result.reading = Nil
        /\ result.err # Nil
        /\ result.err.type = "WeatherServiceError"
        /\ result.err.message = "Failed to decode weather data"
        /\ IF resp.read.body.json
           THEN Contains(result.err.details, "json: cannot unmarshal")
           ELSE result.err.details = resp.read.body.perr

C6_Witness ==
    /\ pc = "returned"
    /\ resp.kind = "response"
    /\ resp.status = 200
    /\ resp.read.ok
    /\ ~resp.read.body.json
    /\ result.err.message = "Failed to decode weather data"
    /\ result.err.details = "invalid character '<' looking for beginning of value"

(***************************************************************************)
(* C7.  As claimed: every failure of GetTemperature is a                   *)
(* WeatherServiceError whose message is "Failed to fetch weather data",    *)
(* "Weather API error" or "Failed to decode weather data".                 *)
(***************************************************************************)
C7_Original ==
    (pc = "returned" /\ result.err # Nil) =>
        /\ result.err.type = "WeatherServiceError"
        /\ result.err.message \in {"Failed to fetch weather data",
                                   "Weather API error",
                                   "Failed to decode weather data"}

(***************************************************************************)
(* C7, amended.  Every failure of GetTemperature is a WeatherServiceError  *)
(* whose message is "Failed to fetch weather data", "Failed to read        *)
(* response", "Weather API error" or "Failed to decode weather data".      *)
(***************************************************************************)
C7_FailureMessages ==
    (pc = "returned" /\ result.err # Nil) =>
        /\ result.reading = Nil
        /\ result.err.type = "WeatherServiceError"
        /\ result.err.message \in {"Failed to fetch weather data",
                                   "Failed to read response",
                                   "Weather API error",
                                   "Failed to decode weather data"}

C7_Witness ==
    /\ pc = "returned"
    /\ resp.kind = "response"
    /\ ~resp.read.ok
    /\ result.err # Nil
    /\ result.err.message = "Failed to read response"

(***************************************************************************)
(* C8.  Each invocation of GetTemperature issues exactly one outbound      *)
(* HTTP GET, whatever the outcome: none before the call is made, one once  *)
(* it is made, and still one when the invocation has returned.             *)
(***************************************************************************)
C8_SingleAttempt ==
    /\ pc = "get" => gets = 0
    /\ pc \in {"got", "returned"} => gets = 1

C8_Witness ==
    /\ pc = "returned"
    /\ resp.kind = "fetch_error"
    /\ result.err # Nil
    /\ gets = 1

\* the values of a required field that the bridges must reject: absent,
\* null, the empty string, 0, false
MissingOrFalsy(v) ==
    v \in {JAbsent, JNull, JStr(""), JNum(0), JBool(FALSE)}

CallsOf(r) ==
    {k \in 1..Len(calls) : calls[k].request = r}

ValidRequests ==
    {r \in 1..Len(requests) : ~MissingOrFalsy(requests[r].field)}

(***************************************************************************)
(* C9.  In both bridges a request whose required field is missing or       *)
(* falsy is answered with status 400 and a body {error: ...}; no client    *)
(* is obtained and no RPC call is issued for it (connections and calls     *)
(* exist only for the other requests); and no RPC request carries an       *)
(* empty location or prompt.                                               *)
(***************************************************************************)
C9_MissingFieldRejected ==
    /\ \A r \in 1..Len(requests) :
          MissingOrFalsy(requests[r].field) =>
              /\ responses[r] =
                    <<[status |-> 400,
                       body |-> [error |-> IF requests[r].endpoint = "temperature"
                                           THEN "Location is required"
                                           ELSE "Prompt is required"]]>>
              /\ requests[r].client = 0
              /\ CallsOf(r) = {}
    /\ Len(connections) <= Cardinality(ValidRequests)
    /\ \A k \in 1..Len(calls) :
          /\ calls[k].request \in ValidRequests
          /\ calls[k].method = "getTemperature" => calls[k].args.location # ""
          /\ calls[k].method = "generateText" => calls[k].args.prompt # ""

C9_Witness ==
    /\ Len(requests) = 2
    /\ requests[1] = [endpoint |-> "temperature", field |-> JStr(""), client |-> 0]
    /\ requests[2] = [endpoint |-> "llm", field |-> JAbsent, client |-> 0]
    /\ \A r \in 1..2 : Len(responses[r]) = 1 /\ responses[r][1].status = 400
    /\ calls = <<>>
    /\ connections = <<>>

(***************************************************************************)
(* C10.  For every HTTP request that passes validation the bridge invokes  *)
(* the corresponding RPC method exactly once: one call exists for it from  *)
(* the moment it is accepted, and no second call is made after the first   *)
(* one failed.                                                             *)
(***************************************************************************)
C10_ExactlyOneRpcCall ==
    \A r \in ValidRequests :
        /\ Cardinality(CallsOf(r)) = 1
        /\ \A k \in CallsOf(r) :
              calls[k].method = IF requests[r].endpoint = "temperature"
                                THEN "getTemperature" ELSE "generateText"

C10_Witness ==
    /\ Len(requests) >= 2
    /\ requests[1].endpoint = "temperature"
    /\ requests[2].endpoint = "llm"
    /\ \A r \in 1..2 :
          /\ r \in ValidRequests
          /\ Len(responses[r]) = 1
          /\ responses[r][1].status = 500
          /\ Cardinality(CallsOf(r)) = 1
          /\ \A k \in CallsOf(r) : calls[k].state = "failed"

\* the valid /api/llm requests that arrived after call k's callback ran
LlmRequestsAfter(k) ==
    {r \in ValidRequests : requests[r].endpoint = "llm" /\ r > calls[k].doneAt}

(***************************************************************************)
(* C11.  In the cached-connection bridge, when the generateText call of a  *)
(* request fails, the request is answered with status 500 and a JSON       *)
(* error body, the cached client is null until another request obtains a   *)
(* client, and the next validated request gets a client bound to a newly   *)
(* created connection, not the one the failed call was made on.            *)
(***************************************************************************)
C11_FailureInvalidatesCachedClient ==
    \A k \in 1..Len(calls) :
        (calls[k].method = "generateText" /\ calls[k].state = "failed") =>
            /\ Len(responses[calls[k].request]) = 1
            /\ responses[calls[k].request][1].status = 500
            /\ DOMAIN responses[calls[k].request][1].body = {"error", "details"}
            /\ responses[calls[k].request][1].body.error = "Failed to generate text"
            /\ LlmRequestsAfter(k) = {} => thriftClient = 0
            /\ \A r \in LlmRequestsAfter(k) :
                  /\ requests[r].client # calls[k].conn
                  /\ (\A q \in LlmRequestsAfter(k) : q >= r) =>
                        \A q \in 1..(r - 1) : requests[q].client # requests[r].client

C11_Witness ==
    /\ Len(requests) = 2
    /\ Len(calls) = 2
    /\ calls[1].method = "generateText"
    /\ calls[1].state = "failed"
    /\ calls[1].doneAt = 1
    /\ responses[1][1].status = 500
    /\ requests[2].endpoint = "llm"
    /\ requests[2].client = 2
    /\ calls[1].conn = 1
    /\ connections[1].ended

(***************************************************************************)
(* C12.  In both bridges, after the RPC call of a request fails, the       *)
(* connection the call was made on is eventually ended by the bridge and   *)
(* is never used for a later request.                                      *)
(***************************************************************************)
C12_Original ==
    \A k \in 1..MaxRequests :
        /\ (k <= Len(calls) /\ calls[k].state = "failed")
              ~> (k <= Len(calls) /\ connections[calls[k].conn].ended)
        /\ [](k <= Len(calls) /\ calls[k].state = "failed" =>
                \A r \in 1..Len(requests) :
                    r > calls[k].doneAt => requests[r].client # calls[k].conn)

\* the requests that found the cached connection healthy on arrival
Healthy ==
    /\ thriftClient # 0
    /\ thriftConnection = thriftClient
    /\ connections[thriftConnection].connected
    /\ ~connections[thriftConnection].closed

(***************************************************************************)
(* C13.  In the cached-connection bridge, while the cached connection is   *)
(* healthy (client cached, connection connected, no error or close since), *)
(* a valid request reuses the same client and connection: no connection    *)
(* is created and none is ended.                                           *)
(***************************************************************************)
C13_HealthyConnectionReused ==
    [][(/\ Healthy
        /\ Len(requests') = Len(requests) + 1
        /\ requests'[Len(requests')].endpoint = "llm"
        /\ ~MissingOrFalsy(requests'[Len(requests')].field))
       => /\ connections' = connections
          /\ requests'[Len(requests')].client = thriftClient
          /\ thriftClient' = thriftClient
          /\ thriftConnection' = thriftConnection
          /\ calls'[Len(calls')].conn = thriftConnection]_vars

C13_Witness ==
    /\ Len(requests) = 2
    /\ Len(connections) = 1
    /\ requests[1].endpoint = "llm"
    /\ requests[2].endpoint = "llm"
    /\ requests[1].client = 1
    /\ requests[2].client = 1
    /\ calls[2].conn = 1
    /\ ~connections[1].ended

\* request r has been answered once, with status 200 and the text
\* generated for its own prompt
OwnLlmResult(r) ==
    /\ Len(responses[r]) = 1
    /\ responses[r][1].status = 200
    /\ \E k \in CallsOf(r) :
          /\ calls[k].args.prompt = requests[r].field.v
          /\ calls[k].state = "answered"
          /\ responses[r][1].body.text = calls[k].reply.response.generated_text

\* the RPC server answered the call of request r with an exception
ServerRefused(r) ==
    \E k \in CallsOf(r) : calls[k].state = "failed"

(***************************************************************************)
(* C14.  Against the cached-connection bridge, valid requests posted one   *)
(* right after the other, the later before the earlier has been answered   *)
(* or has even connected, each receive a successful response carrying the  *)
(* result for their own request, provided the RPC server answers every     *)
(* call it receives.                                                       *)
(***************************************************************************)
C14_Original ==
    \A r \in 1..MaxRequests :
        (/\ r <= Len(requests)
         /\ requests[r].endpoint = "llm"
         /\ ~MissingOrFalsy(requests[r].field))
        ~> (/\ r <= Len(requests)
            /\ requests[r].endpoint = "llm"
            /\ OwnLlmResult(r) \/ ServerRefused(r))

\* validation failed for request r
Invalid(r) ==
    MissingOrFalsy(requests[r].field)

\* the response of request r is whole: a result body on 200, an error body
\* on 400 and 500, decided by validation and by what the callback got
WholeResponse(r) ==
    LET a == responses[r][1]
        got == {calls[k].state : k \in CallsOf(r)}
    IN  /\ a.status \in {200, 400, 500}
        /\ a.status = 400 <=> Invalid(r)
        /\ a.status = 200 <=> got = {"answered"}
        /\ a.status = 200 =>
              DOMAIN a.body \in {{"temperature", "location", "timestamp", "unit"},
                                 {"text", "generationTime", "inputTokens", "generatedTokens"}}
        /\ a.status = 400 => DOMAIN a.body = {"error"}
        /\ a.status = 500 => DOMAIN a.body = {"error", "details"}

(***************************************************************************)
(* C15.  Every HTTP request handled by a bridge endpoint receives exactly  *)
(* one response, all or nothing: 400 iff validation failed, 200 with the   *)
(* full result body iff the RPC callback delivered a response without      *)
(* error, 500 with an error body otherwise; no request is answered twice   *)
(* or with a mix of result and error fields.                               *)
(***************************************************************************)
C15_Original ==
    \A r \in 1..MaxRequests :
        /\ (r <= Len(requests)) ~> (r <= Len(requests) /\ Len(responses[r]) = 1)
        /\ [](r <= Len(requests) =>
                /\ Len(responses[r]) <= 1
                /\ Len(responses[r]) = 1 => WholeResponse(r))

\* the upstream call of the handler failed: no connection, a status other
\* than 200, or a payload that does not decode
UpstreamFailed(u) ==
    \/ u.kind = "fetch_error"
    \/ u.kind = "response" /\ u.status # 200
    \/ u.kind = "response" /\ u.read.ok /\ ~Decodable(u.read.body)

(***************************************************************************)
(* C16.  Through the weather chain: whenever the handler's upstream call   *)
(* fails (connect failure, non-200 status, malformed payload), the         *)
(* handler's WeatherServiceError reaches the bridge as an RPC error and    *)
(* the HTTP caller receives a 5xx response with a JSON error body, never   *)
(* a 200.                                                                  *)
(***************************************************************************)
C16_UpstreamFailureIs5xx ==
    \A k \in 1..Len(calls) :
        (/\ calls[k].method = "getTemperature"
         /\ calls[k].state # "pending"
         /\ UpstreamFailed(calls[k].reply.upstream)) =>
            /\ calls[k].state = "failed"
            /\ calls[k].reply.err.name = "WeatherServiceError"
            /\ responses[calls[k].request] =
                  <<[status |-> 500,
                     body |-> [error |-> "Failed to get temperature data",
                               details |-> calls[k].reply.err.message]]>>
            /\ calls[k].reply.err.message \in
                  {"Failed to fetch weather data", "Weather API error",
                   "Failed to decode weather data"}

C16_Witness ==
    /\ Len(calls) = 2
    /\ calls[1].method = "getTemperature"
    /\ calls[1].state = "failed"
    /\ calls[1].reply.upstream.kind = "fetch_error"
    /\ responses[1][1].status = 500
    /\ responses[1][1].body.details = "Failed to fetch weather data"
    /\ calls[2].method = "getTemperature"
    /\ calls[2].state = "failed"
    /\ calls[2].reply.upstream.kind = "response"
    /\ calls[2].reply.upstream.status = 200
    /\ responses[2][1].body.details = "Failed to decode weather data"

SafeInteger(t) ==
    ~Less(TwoTo53, Parse(t).digits)

(***************************************************************************)
(* C18 as stated.  For every 64-bit signed timestamp t, carried as an      *)
(* 8-byte big-endian Buffer, as a serialized {type: "Buffer", data} object *)
(* or as a plain number, the emitted timestamp string is the decimal       *)
(* representation of t.                                                    *)
(***************************************************************************)
C18_Original ==
    emitted # "" => emitted = stamp

(***************************************************************************)
(* C18, amended.  For every 64-bit signed timestamp t carried as an 8-byte *)
(* big-endian Buffer or as a serialized Buffer object, and for every t     *)
(* with |t| <= 2^53 carried as a plain number, the emitted timestamp       *)
(* string is the decimal representation of t.                              *)
(***************************************************************************)
C18_TimestampDecimal ==
    (emitted # "" /\ (carried.kind # "number" \/ SafeInteger(stamp))) =>
        emitted = stamp

C18_Witness ==
    /\ stamp = "-9223372036854775808"
    /\ carried.kind = "object"
    /\ carried.data = <<128, 0, 0, 0, 0, 0, 0, 0>>
    /\ emitted = "-9223372036854775808"

\* the caller supplied a number for this member of the body
Supplied(v) ==
    v.t = "number"

(***************************************************************************)
(* C19.  In /api/llm the TextGenerationRequest sent over RPC carries the   *)
(* caller's prompt unchanged, temperature equal to the caller's            *)
(* temperature when one is supplied (the front end allows 0 to 2,          *)
(* including 0) and 0.7 when omitted, and max_length equal to the caller's *)
(* maxTokens when supplied and 512 when omitted.                           *)
(***************************************************************************)
C19_Original ==
    generationRequest # Nil =>
        /\ generationRequest.prompt = reqBody.prompt.v
        /\ generationRequest.temperature =
              IF Supplied(reqBody.temperature) THEN reqBody.temperature.v ELSE 7
        /\ generationRequest.max_length =
              IF Supplied(reqBody.maxTokens) THEN reqBody.maxTokens.v ELSE 512

(***************************************************************************)
(* C20.  Whenever GetTemperature succeeds (returns a reading and no        *)
(* error), the reading's temperature is non-zero.                          *)
(***************************************************************************)
C20_Original ==
    (pc = "returned" /\ result.err = Nil) => result.reading.Temperature # 0

\* the call has returned without error
Succeeded(c) ==
    c.outcome # Nil /\ c.outcome.err = Nil

\* the call has returned an error
Failed(c) ==
    c.outcome # Nil /\ c.outcome.err # Nil

(***************************************************************************)
(* C21.  The Go RPC client opens its transport before issuing any call,    *)
(* issues its calls one at a time in the order generateText, classifyText, *)
(* classifyText, each only after the previous one returned successfully,   *)
(* and on the first error (open or call) exits without issuing any later   *)
(* call.                                                                   *)
(***************************************************************************)
C21_SequentialCalls ==
    /\ Len(issued) <= 3
    /\ \A i \in 1..Len(issued) :
          /\ issued[i].call.method = <<"generateText", "classifyText", "classifyText">>[i]
          /\ issued[i].opened
          /\ i < Len(issued) => Succeeded(issued[i])
    /\ (Len(issued) > 0 /\ Failed(issued[Len(issued)])) =>
          mainPc = "exited" /\ exitCode = [code |-> 1]
    /\ (mainPc = "exited" /\ transport \in {"none", "closed"} /\ exitCode = [code |-> 1]) =>
          issued = <<>>
    /\ mainPc \in {"call", "wait"} => transport = "open"

C21_Witness ==
    /\ Len(issued) = 3
    /\ \A i \in 1..3 : Succeeded(issued[i])
    /\ issued[2].outcome.result.Label = "positive"
    /\ issued[3].outcome.result.Label = "technology"
    /\ mainPc = "exited"
    /\ exitCode = [code |-> 0]

\* the first check, in the order fetch, body read, status, decode, error
\* flag, that the upstream behaviour fails; "none" when it passes them all
FirstFailingCheck(response) ==
    IF response.kind = "fetch_error" THEN "fetch"
    ELSE IF ~response.read.ok THEN "read"
    ELSE IF response.status # 200 THEN "status"
    ELSE IF ~Decodable(response.read.body) THEN "decode"
    ELSE IF response.read.body.error = JBool(TRUE) THEN "flag"
    ELSE "none"

MessageOf(check) ==
    CASE check = "fetch" -> "Failed to fetch weather data"
      [] check = "read" -> "Failed to read response"
      [] check = "status" -> "Weather API error"
      [] check = "decode" -> "Failed to decode weather data"
      [] check = "flag" -> "Weather API error"

(***************************************************************************)
(* C22.  GetTemperature applies its checks in the order fetch, body read,  *)
(* HTTP status, JSON decode, payload error flag, and the first failing     *)
(* check alone determines the error: a non-200 response fails with details *)
(* "Status code: N" even when its body is malformed JSON or carries        *)
(* error = true with a reason.                                             *)
(***************************************************************************)
C22_FirstFailingCheckDecides ==
    pc = "returned" =>
        LET check == FirstFailingCheck(resp) IN
        /\ check = "none" <=> result.err = Nil
        /\ check # "none" =>
              /\ result.reading = Nil
              /\ result.err.message = MessageOf(check)
              /\ check = "status" =>
                    result.err.details = "Status code: " \o ToString(resp.status)
              /\ check # "status" =>
                    ~Contains(result.err.details, "Status code: ")

C22_Witness ==
    /\ pc = "returned"
    /\ resp.kind = "response"
    /\ resp.status = 400
    /\ resp.read.ok
    /\ resp.read.body.json
    /\ resp.read.body.error = JBool(TRUE)
    /\ resp.read.body.reason.t = "string"
    /\ result.err.details = "Status code: 400"

(***************************************************************************)
(* C23.  For every input and every upstream behaviour, GetTemperature      *)
(* returns exactly one of: a non-nil reading with a nil error, or a nil    *)
(* reading with a non-nil error; never both nil or both non-nil.           *)
(***************************************************************************)
C23_ReadingXorError ==
    pc = "returned" =>
        \/ result.reading # Nil /\ result.err = Nil
        \/ result.reading = Nil /\ result.err # Nil

C23_Witness ==
    /\ pc = "returned"
    /\ req.Location = ""
    /\ resp.kind = "response"
    /\ resp.status = 200
    /\ resp.read.ok
    /\ ~Decodable(resp.read.body)
    /\ result.reading = Nil
    /\ result.err.message = "Failed to decode weather data"

(***************************************************************************)
(* C24.  In the cached-connection bridge the cached client is cleared only *)
(* by an event of the connection it is bound to: a "close" or "error"      *)
(* event of a connection that createThriftClient has already ended and     *)
(* replaced does not null the cached client of the replacement.            *)
(***************************************************************************)
C24_Original ==
    [][\A c \in 1..Len(connections) :
          (/\ connections[c].owner = "llm"
           /\ connections[c].ended
           /\ c # thriftConnection
           /\ connections'[c] # connections[c])
          => thriftClient' = thriftClient]_vars

\* the connections the cached bridge has created and not yet ended
LiveCachedConnections ==
    {c \in 1..Len(connections) : connections[c].owner = "llm" /\ ~connections[c].ended}

InFlight(c) ==
    {k \in 1..Len(calls) : calls[k].conn = c /\ calls[k].state = "pending"}

(***************************************************************************)
(* C26.  In the cached-connection bridge createThriftClient never ends a   *)
(* connection on which an RPC call of an earlier request is still awaiting *)
(* its callback: a request arriving while the cached connection is still   *)
(* connecting, or after the client was nulled, does not abort another      *)
(* request's in-flight call.                                               *)
(***************************************************************************)
C26_Original ==
    [][\A c \in 1..Len(connections) :
          (~connections[c].ended /\ connections'[c].ended) => InFlight(c) = {}]_vars

\* the fixed error text of the endpoint a call was made for
EndpointError(method) ==
    IF method = "getTemperature"
    THEN "Failed to get temperature data"
    ELSE "Failed to generate text"

\* the 500 body carries the endpoint's text and the message of the error
FailureBodyShape(k) ==
    LET answer == responses[calls[k].request][1]
        error == calls[k].reply.err
    IN  /\ answer.status = 500
        /\ answer.body.error = EndpointError(calls[k].method)
        /\ answer.body.details = IF error.isError THEN error.message ELSE "Unknown error"

(***************************************************************************)
(* C27.  The bridge's 500 body contains the failure detail: its error      *)
(* field is the endpoint's fixed text, its details field is the message of *)
(* the error the RPC callback delivered when that is an Error instance and *)
(* "Unknown error" otherwise; the details field of a WeatherServiceError   *)
(* is what the caller sees as the failure detail.                          *)
(***************************************************************************)
C27_Original ==
    \A k \in 1..Len(calls) :
        calls[k].state = "failed" =>
            /\ FailureBodyShape(k)
            /\ calls[k].reply.err.name = "WeatherServiceError" =>
                  Contains(responses[calls[k].request][1].body.details,
                           calls[k].reply.err.details)

(***************************************************************************)
(* C28.  In the cached-connection bridge a request rejected with 400       *)
(* leaves the connection state unchanged: the cached client and the cached *)
(* connection are the same before and after, no connection is created and  *)
(* none is ended.                                                          *)
(***************************************************************************)
C28_RejectionLeavesConnections ==
    [][(/\ Len(requests') = Len(requests) + 1
        /\ requests'[Len(requests')].endpoint = "llm"
        /\ Len(responses'[Len(requests')]) = 1
        /\ responses'[Len(requests')][1].status = 400)
       => /\ thriftClient' = thriftClient
          /\ thriftConnection' = thriftConnection
          /\ connections' = connections
          /\ calls' = calls]_vars

C28_Witness ==
    /\ Len(requests) = 2
    /\ requests[1].endpoint = "llm"
    /\ requests[1].client = 1
    /\ requests[2].endpoint = "llm"
    /\ requests[2].client = 0
    /\ responses[2] = <<[status |-> 400, body |-> [error |-> "Prompt is required"]]>>
    /\ thriftClient = 1
    /\ thriftConnection = 1
    /\ Len(connections) = 1
    /\ ~connections[1].ended

\* the validated /api/temperature requests
WeatherRequests ==
    {r \in ValidRequests : requests[r].endpoint = "temperature"}

(***************************************************************************)
(* C29.  The weather bridge opens exactly one new RPC connection for each  *)
(* request that passes validation and shares no connection between         *)
(* requests, and every connection it opens is eventually closed once its   *)
(* request has been answered (success or failure), so the number of open   *)
(* connections does not grow with the number of requests served.           *)
(***************************************************************************)
C29_Original ==
    /\ [](\A r \in WeatherRequests :
            /\ requests[r].client # 0
            /\ connections[requests[r].client].owner = "weather"
            /\ \A q \in 1..Len(requests) : q # r => requests[q].client # requests[r].client)
    /\ [](Cardinality({c \in 1..Len(connections) : connections[c].owner = "weather"})
            = Cardinality(WeatherRequests))
    /\ \A r \in 1..MaxRequests :
          (r \in WeatherRequests /\ Len(responses[r]) = 1)
          ~> (/\ r \in WeatherRequests
              /\ \/ connections[requests[r].client].ended
                 \/ connections[requests[r].client].closed)

====
